---- MODULE Spec2Model ----
(***************************************************************************)
(* State-machine model of src/components/BadgesDashboard/BadgesDashboard   *)
(* .tsx, which holds two React components:                                 *)
(*                                                                         *)
(*   BadgesDashboard   (lines 31-419)  the course view.  loadBadges fetches*)
(*                     the skill matrix and the student analytics and      *)
(*                     derives one badge per skill; a useEffect calls it.  *)
(*   StudentBadgesTest (lines 440-592) the student lookup view.            *)
(*                     handleSearch fetches one student's earned badges.   *)
(*                                                                         *)
(* An await ends in one step: the backend's answer is delivered and the    *)
(* continuation of the async function runs on it.  The answer delivered    *)
(* last is kept in lastResponse.                                           *)
(*                                                                         *)
(* Rendering: state updates made in one continuation are committed in one  *)
(* render (automatic batching).  A commit whose state differs from the     *)
(* previous one schedules the passive effect of lines 162-164 again,       *)
(* because its dependency loadBadges is a new function object on every     *)
(* render.  React flushes a pending passive effect before it processes the *)
(* next update, so while effectPending holds no answer is delivered and    *)
(* the prop does not change; a click on the list that the commit displays  *)
(* can still come first.                                                   *)
(* A request is issued exactly when a run enters pc "awaitMatrix" (line 44)*)
(* or pc "awaitAnalytics" (line 68).                                       *)
(* console.log / console.error output is not modelled.                     *)
(***************************************************************************)
EXTENDS Integers, Sequences, FiniteSets, TLC

(***************************************************************************)
(* Bounds of the model.                                                    *)
(***************************************************************************)
\* loadBadges runs started (the effect re-runs without end otherwise)
MaxRuns == 4
\* triggers of the course view: the mount plus changes of the courseId prop
MaxTriggers == 2
\* invocations of handleSearch in the lookup view
MaxSearches == 3

(***************************************************************************)
(* Strings.  A skill name is a TLA+ string; Chars gives its characters so  *)
(* that toLowerCase and includes are computed character by character.      *)
(***************************************************************************)
SkillNames == {"Basic Math", "Intro to Advanced Topics", "MASTERY", "Algebra"}

Chars(name) ==
    CASE name = "Basic Math" ->
           <<"B","a","s","i","c"," ","M","a","t","h">>
      [] name = "Intro to Advanced Topics" ->
           <<"I","n","t","r","o"," ","t","o"," ","A","d","v","a","n","c","e","d",
             " ","T","o","p","i","c","s">>
      [] name = "MASTERY" -> <<"M","A","S","T","E","R","Y">>
      [] name = "Algebra" -> <<"A","l","g","e","b","r","a">>

UpperCase == <<"A","B","C","D","E","F","G","H","I","J","K","L","M",
               "N","O","P","Q","R","S","T","U","V","W","X","Y","Z">>
LowerCase == <<"a","b","c","d","e","f","g","h","i","j","k","l","m",
               "n","o","p","q","r","s","t","u","v","w","x","y","z">>

\* String.prototype.toLowerCase on a character sequence
ToLowerCase(s) ==
    [k \in 1..Len(s) |->
        IF \E u \in 1..Len(UpperCase) : UpperCase[u] = s[k]
        THEN LowerCase[CHOOSE u \in 1..Len(UpperCase) : UpperCase[u] = s[k]]
        ELSE s[k]]

\* String.prototype.includes on character sequences
Includes(s, sub) ==
    \E k \in 1..(Len(s) - Len(sub) + 1) : SubSeq(s, k, k + Len(sub) - 1) = sub

\* lines 91-98: the level of a derived badge
Level(skillName) ==
    LET skillLower == ToLowerCase(Chars(skillName)) IN
    IF \/ Includes(skillLower, <<"b","a","s","i","c">>)
       \/ Includes(skillLower, <<"i","n","t","r","o">>)
       \/ Includes(skillLower, <<"f","u","n","d","a","m","e","n","t","a","l">>)
    THEN "beginner"
    ELSE IF \/ Includes(skillLower, <<"a","d","v","a","n","c","e","d">>)
            \/ Includes(skillLower, <<"e","x","p","e","r","t">>)
            \/ Includes(skillLower, <<"m","a","s","t","e","r">>)
         THEN "advanced"
         ELSE "intermediate"

\* Level, tabulated once for the names of the model
LevelTable == [name \in SkillNames |-> Level(name)]

(***************************************************************************)
(* What the backend can answer.  A rejected promise is [ok |-> FALSE]; a   *)
(* JavaScript property that is undefined or null is an absent record field.*)
(***************************************************************************)
\* skillMatrixAPI.getAllByCourse: absent data, no record, a name repeated
\* inside one record, names repeated across records, a record without skills
MatrixResponses ==
    { [ok |-> FALSE],
      [ok |-> TRUE],
      [ok |-> TRUE, data |-> <<>>],
      [ok |-> TRUE, data |-> << [skills |-> <<"Basic Math", "Basic Math", "Algebra">>] >>],
      [ok |-> TRUE, data |-> << [skills |-> <<"Algebra", "MASTERY">>],
                                [skills |-> <<"MASTERY", "Intro to Advanced Topics",
                                              "Algebra">>] >>],
      [ok |-> TRUE, data |-> << [matrix_name |-> "draft"],
                                [skills |-> <<"Intro to Advanced Topics">>] >>] }

\* instructorAPI.getCourseStudentAnalytics: absent data, data without a
\* students list, and students with and without skillBreakdown, with
\* breakdown entries missing, without score, and with scores around 80
AnalyticsResponses ==
    { [ok |-> FALSE],
      [ok |-> TRUE],
      [ok |-> TRUE, data |-> [courseName |-> "c"]],
      [ok |-> TRUE, data |-> [students |-> <<
          [id |-> "s1", name |-> "Ada",
           skillBreakdown |-> ("Basic Math" :> [score |-> 80]) @@
                              ("Algebra" :> [score |-> 79]) @@
                              ("MASTERY" :> [attempts |-> 1])],
          [id |-> "s2", name |-> "Bob"] >>]],
      [ok |-> TRUE, data |-> [students |-> <<
          [id |-> "s1", name |-> "Ada",
           skillBreakdown |-> ("Algebra" :> [score |-> 100]) @@
                              ("Intro to Advanced Topics" :> [score |-> 0])],
          [id |-> "s2", name |-> "Bob",
           skillBreakdown |-> ("MASTERY" :> [score |-> 81]) @@
                              ("Intro to Advanced Topics" :> [score |-> 95]) @@
                              ("Basic Math" :> [score |-> 79])],
          [id |-> "s3", name |-> "Cy",
           skillBreakdown |-> ("Algebra" :> [score |-> 80])] >>]] }

Courses == {"c1", "c2"}

(***************************************************************************)
(* loadBadges, the pure part: lines 54-63 and 73-149.                      *)
(***************************************************************************)
\* line 110: a badge is earned at 80% or higher
EarnThreshold == 80

\* line 47: !skillMatrices || skillMatrices.length === 0
\* variant: only !skillMatrices is tested, an empty array passes
NoSkillMatrixMut_OnlyAbsent(response) == "data" \notin DOMAIN response

NoSkillMatrix(response) ==
    IF "data" \notin DOMAIN response THEN TRUE ELSE Len(response.data) = 0

\* lines 55-60: the skills of every record that has a skills array
AllSkills(skillMatrices) ==
    LET RECURSIVE Collect(_)
        Collect(k) ==
            IF k > Len(skillMatrices) THEN <<>>
            ELSE (IF "skills" \in DOMAIN skillMatrices[k]
                  THEN skillMatrices[k].skills ELSE <<>>) \o Collect(k + 1)
    IN Collect(1)

\* line 63: Array.from(new Set(allSkills)) keeps the first occurrence of a name
\* variant: allSkills is used without the Set
UniqueSkillsMut_NoDedup(allSkills) == allSkills

UniqueSkills(allSkills) ==
    LET RECURSIVE Keep(_)
        Keep(k) ==
            IF k > Len(allSkills) THEN <<>>
            ELSE (IF \E j \in 1..(k - 1) : allSkills[j] = allSkills[k]
                  THEN <<>> ELSE <<allSkills[k]>>) \o Keep(k + 1)
    IN Keep(1)

\* lines 73-82: the badges made when the analytics could not be loaded
\* variant: the fallback shows no badge
EmptyBadgesMut_None(uniqueSkills) == <<>>

EmptyBadges(uniqueSkills) ==
    [k \in 1..Len(uniqueSkills) |->
        [id               |-> "badge-" \o ToString(k - 1),
         name             |-> uniqueSkills[k] \o " Badge",
         skill_name       |-> uniqueSkills[k],
         level            |-> "intermediate",
         badge_type       |-> "skill",
         studentsEarned    |-> <<>>,
         studentsNotEarned |-> <<>>]]

\* line 110: hasEarned
\* variant: skillScore > 80
HasEarnedMut_Strict(skillScore) == skillScore > EarnThreshold

HasEarned(skillScore) == skillScore >= EarnThreshold

\* lines 107-135: the status record of one student for one skill.  earnedAt
\* is a random instant of the past year (line 118); the model keeps only
\* that it is present.
\* variant: progress is left at 0 for a student who has not earned the badge
StudentStatusMut_NoProgress(student, skillName) ==
    IF /\ "skillBreakdown" \in DOMAIN student
       /\ skillName \in DOMAIN student.skillBreakdown
    THEN LET skillData  == student.skillBreakdown[skillName]
             skillScore == IF "score" \in DOMAIN skillData THEN skillData.score ELSE 0
         IN IF HasEarned(skillScore)
            THEN [id |-> student.id, name |-> student.name, earned |-> TRUE,
                  progress |-> skillScore, skillScore |-> skillScore,
                  earnedAt |-> "within the past year"]
            ELSE [id |-> student.id, name |-> student.name, earned |-> FALSE,
                  progress |-> 0, skillScore |-> skillScore]
    ELSE [id |-> student.id, name |-> student.name, earned |-> FALSE,
          progress |-> 0, skillScore |-> 0]

StudentStatus(student, skillName) ==
    IF /\ "skillBreakdown" \in DOMAIN student
       /\ skillName \in DOMAIN student.skillBreakdown
    THEN LET skillData  == student.skillBreakdown[skillName]
             skillScore == IF "score" \in DOMAIN skillData THEN skillData.score ELSE 0
         IN IF HasEarned(skillScore)
            THEN [id |-> student.id, name |-> student.name, earned |-> TRUE,
                  progress |-> skillScore, skillScore |-> skillScore,
                  earnedAt |-> "within the past year"]
            ELSE [id |-> student.id, name |-> student.name, earned |-> FALSE,
                  progress |-> skillScore, skillScore |-> skillScore]
    ELSE [id |-> student.id, name |-> student.name, earned |-> FALSE,
          progress |-> 0, skillScore |-> 0]

\* line 104: studentAnalytics && studentAnalytics.students
Students(analyticsResponse) ==
    IF /\ "data" \in DOMAIN analyticsResponse
       /\ "students" \in DOMAIN analyticsResponse.data
    THEN analyticsResponse.data.students
    ELSE <<>>

\* lines 89-149: one badge per skill, the students pushed in response order
SkillBadges(uniqueSkills, analyticsResponse) ==
    [k \in 1..Len(uniqueSkills) |->
        LET skillName == uniqueSkills[k]
            students  == Students(analyticsResponse)
            statuses  == [n \in 1..Len(students) |-> StudentStatus(students[n], skillName)]
        IN [id               |-> "badge-" \o ToString(k - 1),
            name             |-> skillName \o " Badge",
            skill_name       |-> skillName,
            level            |-> LevelTable[skillName],
            badge_type       |-> "skill",
            studentsEarned    |-> SelectSeq(statuses, LAMBDA st : st.earned),
            studentsNotEarned |-> SelectSeq(statuses, LAMBDA st : ~st.earned)]]

(***************************************************************************)
(* State.                                                                  *)
(***************************************************************************)
VARIABLES
    \* BadgesDashboard: the prop and the useState cells of lines 32-35
    courseId, badges, loading, selectedBadge, showEarned,
    \* history: the skill of the badge the user expanded (Null when none)
    selectedSkill,
    \* a commit has happened whose passive effect (lines 162-164) has not run
    effectPending,
    \* the loadBadges calls made so far, each with its position and locals
    runs,
    \* the answer most recently delivered to an await (lines 44, 68)
    lastResponse,
    \* mounts and courseId changes so far
    triggers,
    \* react-hot-toast: the notifications raised so far
    toasts,
    \* StudentBadgesTest: the useState cells of lines 441-445, as one record
    \* with the fields studentId, badges, totalBadges, loading, searched
    lookup,
    \* the handleSearch calls that reached their request, each with its
    \* position and the studentId its closure holds
    searches,
    \* history: the handleSearch call whose answer set the badges and the
    \* total now shown (0 before the first answer)
    shownBy

courseVars == <<courseId, badges, loading, effectPending, runs, triggers>>
selectVars == <<selectedBadge, showEarned, selectedSkill>>
lookupVars == <<lookup, searches, shownBy>>
vars == <<courseId, badges, loading, effectPending, runs, lastResponse, triggers, toasts,
          selectedBadge, showEarned, selectedSkill, lookup, searches, shownBy>>

\* line 34: useState<string | null>(null)
Null == "null"

\* line 155
FailedToLoad == "Failed to load badges"

\* the mount: the first render shows useState's initial values and schedules
\* the effect
Init ==
    /\ courseId = "c1"
    /\ badges = <<>>
    /\ loading = TRUE
    /\ effectPending = TRUE
    /\ runs = <<>>
    /\ lastResponse = [none |-> TRUE]
    /\ triggers = 1
    /\ toasts = <<>>
    /\ selectedBadge = Null
    /\ showEarned = TRUE
    /\ selectedSkill = Null
    /\ lookup = [studentId |-> <<>>, badges |-> <<>>, totalBadges |-> 0,
                 loading |-> FALSE, searched |-> FALSE]
    /\ searches = <<>>
    /\ shownBy = 0

(***************************************************************************)
(* BadgesDashboard                                                         *)
(***************************************************************************)
\* lines 162-164 and 39-44: the effect calls loadBadges, which runs up to its
\* first await: setLoading(true), then the skill-matrix request.  The effect
\* is scheduled again when setLoading(true) changed the state.
RunEffect ==
    /\ effectPending
    /\ Len(runs) < MaxRuns
    /\ runs' = Append(runs, [pc |-> "awaitMatrix", courseId |-> courseId])
    /\ loading' = TRUE
    /\ effectPending' = ~loading
    /\ UNCHANGED <<courseId, badges, lastResponse, triggers, toasts, lookupVars, selectVars>>

\* the parent renders the component with another courseId
ChangeCourse(c) ==
    /\ ~effectPending
    /\ triggers < MaxTriggers
    /\ c # courseId
    /\ courseId' = c
    /\ triggers' = triggers + 1
    /\ effectPending' = TRUE
    /\ UNCHANGED <<badges, loading, runs, lastResponse, toasts, lookupVars, selectVars>>

\* line 155: toast.error
\* variant: the failure is not notified
FatalToastsMut_Silent(t) == t

FatalToasts(t) == Append(t, [type |-> "error", message |-> FailedToLoad])

\* lines 44 and 153-159: the skill-matrix request of run i was rejected;
\* catch, then finally
MatrixFailed(i, response) ==
    /\ ~effectPending
    /\ runs[i].pc = "awaitMatrix"
    /\ ~response.ok
    /\ lastResponse' = response
    /\ toasts' = FatalToasts(toasts)
    /\ badges' = <<>>
    /\ loading' = FALSE
    /\ effectPending' = TRUE
    /\ runs' = [runs EXCEPT ![i] = [pc |-> "done"]]
    /\ UNCHANGED <<courseId, triggers, lookupVars, selectVars>>

\* lines 44-52 and 157-159: the answer holds no skill matrix
MatrixEmpty(i, response) ==
    /\ ~effectPending
    /\ runs[i].pc = "awaitMatrix"
    /\ response.ok
    /\ NoSkillMatrix(response)
    /\ lastResponse' = response
    /\ badges' = <<>>
    /\ loading' = FALSE
    /\ effectPending' = TRUE
    /\ runs' = [runs EXCEPT ![i] = [pc |-> "done"]]
    /\ UNCHANGED <<courseId, triggers, toasts, lookupVars, selectVars>>

\* lines 44-68: the skills are collected and the analytics request is issued
MatrixLoaded(i, response) ==
    /\ ~effectPending
    /\ runs[i].pc = "awaitMatrix"
    /\ response.ok
    /\ ~NoSkillMatrix(response)
    /\ lastResponse' = response
    /\ runs' = [runs EXCEPT ![i] =
                    [pc |-> "awaitAnalytics", courseId |-> @.courseId,
                     skillMatrices |-> response.data,
                     uniqueSkills |-> UniqueSkills(AllSkills(response.data))]]
    /\ UNCHANGED <<courseId, badges, loading, effectPending, triggers, toasts, lookupVars, selectVars>>

\* lines 68, 70-86 and 157-159: the analytics request of run i was rejected
AnalyticsFailed(i, response) ==
    /\ ~effectPending
    /\ runs[i].pc = "awaitAnalytics"
    /\ ~response.ok
    /\ lastResponse' = response
    /\ badges' = EmptyBadges(runs[i].uniqueSkills)
    /\ loading' = FALSE
    /\ effectPending' = TRUE
    /\ runs' = [runs EXCEPT ![i] = [pc |-> "done"]]
    /\ UNCHANGED <<courseId, triggers, toasts, lookupVars, selectVars>>

\* lines 68-69, 88-151 and 157-159: the badges are derived and shown
AnalyticsLoaded(i, response) ==
    /\ ~effectPending
    /\ runs[i].pc = "awaitAnalytics"
    /\ response.ok
    /\ lastResponse' = response
    /\ badges' = SkillBadges(runs[i].uniqueSkills, response)
    /\ loading' = FALSE
    /\ effectPending' = TRUE
    /\ runs' = [runs EXCEPT ![i] = [pc |-> "done"]]
    /\ UNCHANGED <<courseId, triggers, toasts, lookupVars, selectVars>>

Next ==
    \/ RunEffect
    \/ \E c \in Courses : ChangeCourse(c)
    \/ \E i \in 1..Len(runs) : \E response \in MatrixResponses : MatrixFailed(i, response)
    \/ \E i \in 1..Len(runs) : \E response \in MatrixResponses : MatrixEmpty(i, response)
    \/ \E i \in 1..Len(runs) : \E response \in MatrixResponses : MatrixLoaded(i, response)
    \/ \E i \in 1..Len(runs) : \E response \in AnalyticsResponses : AnalyticsFailed(i, response)
    \/ \E i \in 1..Len(runs) : \E response \in AnalyticsResponses : AnalyticsLoaded(i, response)

Spec == Init /\ [][Next]_vars

\* lines 179-186 and 243: a click on the header of the k-th badge of the
\* displayed list (the list is rendered only when loading is false, line
\* 188).  selectedBadge changes either way, so the component renders again.
ToggleBadge(k) ==
    /\ ~loading
    /\ k \in 1..Len(badges)
    /\ LET badgeId == badges[k].id IN
       IF selectedBadge = badgeId
       THEN /\ selectedBadge' = Null
            /\ selectedSkill' = Null
            /\ UNCHANGED showEarned
       ELSE /\ selectedBadge' = badgeId
            /\ selectedSkill' = badges[k].skill_name
            /\ showEarned' = TRUE
    /\ effectPending' = TRUE
    /\ UNCHANGED <<courseId, badges, loading, runs, lastResponse, triggers, toasts,
                   lookupVars>>

\* lines 306 and 318: the two tab buttons, rendered inside the expanded badge
\* (lines 229, 301)
SetShowEarned(value) ==
    /\ ~loading
    /\ \E k \in 1..Len(badges) : badges[k].id = selectedBadge
    /\ showEarned' = value
    /\ effectPending' = IF value # showEarned THEN TRUE ELSE effectPending
    /\ UNCHANGED <<courseId, badges, loading, runs, lastResponse, triggers, toasts,
                   selectedBadge, selectedSkill, lookupVars>>

\* the course view with the user's clicks on the badge list
NextSelect ==
    \/ RunEffect
    \/ \E c \in Courses : ChangeCourse(c)
    \/ \E i \in 1..Len(runs) : \E response \in MatrixResponses : MatrixFailed(i, response)
    \/ \E i \in 1..Len(runs) : \E response \in MatrixResponses : MatrixEmpty(i, response)
    \/ \E i \in 1..Len(runs) : \E response \in MatrixResponses : MatrixLoaded(i, response)
    \/ \E i \in 1..Len(runs) : \E response \in AnalyticsResponses : AnalyticsFailed(i, response)
    \/ \E i \in 1..Len(runs) : \E response \in AnalyticsResponses : AnalyticsLoaded(i, response)
    \/ \E k \in 1..Len(badges) : ToggleBadge(k)
    \/ \E value \in BOOLEAN : SetShowEarned(value)

SpecSelect == Init /\ [][NextSelect]_vars

(***************************************************************************)
(* StudentBadgesTest                                                       *)
(***************************************************************************)
\* what can be typed into the input of lines 504-511, as character sequences
InputValues == { <<>>, <<" ">>, <<" ", "\t">>, <<"s", "1">>, <<" ", "s", "2", " ">> }

WhiteSpace == {" ", "\t", "\n", "\r"}

\* String.prototype.trim
\* variant: !studentId without trim()
TrimMut_Identity(s) == s

Trim(s) ==
    LET inner == {k \in 1..Len(s) : s[k] \notin WhiteSpace} IN
    IF inner = {} THEN <<>>
    ELSE SubSeq(s, CHOOSE k \in inner : \A j \in inner : k <= j,
                   CHOOSE k \in inner : \A j \in inner : k >= j)

\* badgeAPI.getStudentEarnedBadges: lists of 0, 1 and 2 badges whose
\* total_badges agrees or not; rejections without a response, without a
\* message, with an empty message and with a message
EarnedBadgesResponses ==
    { [ok |-> TRUE, data |-> [badges |-> <<>>, total_badges |-> 0]],
      [ok |-> TRUE, data |-> [badges |-> << [badge_id |-> "b1", skill_name |-> "Algebra"] >>,
                              total_badges |-> 1]],
      [ok |-> TRUE, data |-> [badges |-> << [badge_id |-> "b1", skill_name |-> "Algebra"],
                                            [badge_id |-> "b2", skill_name |-> "MASTERY"] >>,
                              total_badges |-> 1]],
      [ok |-> FALSE, error |-> [message |-> "Network Error"]],
      [ok |-> FALSE, error |-> [response |-> [status |-> 500]]],
      [ok |-> FALSE, error |-> [response |-> [data |-> [message |-> ""]]]],
      [ok |-> FALSE, error |-> [response |-> [data |-> [message |-> "Student not found"]]]] }

\* lines 449 and 462
PleaseEnter == "Please enter a student ID"
FailedToFetch == "Failed to fetch badges"

\* line 462: error.response?.data?.message || 'Failed to fetch badges'
\* variant: the backend's message is ignored
ErrorMessageMut_AlwaysGeneric(error) == FailedToFetch

ErrorMessage(error) ==
    IF "response" \notin DOMAIN error THEN FailedToFetch
    ELSE IF "data" \notin DOMAIN error.response THEN FailedToFetch
    ELSE IF "message" \notin DOMAIN error.response.data THEN FailedToFetch
    ELSE IF error.response.data.message = "" THEN FailedToFetch
    ELSE error.response.data.message

\* line 457: the total shown is the backend's total_badges
\* variant: the total is counted from the list
TotalBadgesMut_Counted(data) == Len(data.badges)

TotalBadges(data) == data.total_badges

\* handleSearch calls made so far: those stopped at line 449 left a toast,
\* the others a request
SearchCalls ==
    Len(searches) + Cardinality({k \in 1..Len(toasts) : toasts[k].message = PleaseEnter})

\* line 507: onChange
SetStudentId(value) ==
    /\ value # lookup.studentId
    /\ lookup' = [lookup EXCEPT !.studentId = value]
    /\ UNCHANGED <<courseVars, selectVars, lastResponse, toasts, searches, shownBy>>

\* lines 447-455: handleSearch up to its await
HandleSearch ==
    /\ SearchCalls < MaxSearches
    /\ IF Trim(lookup.studentId) = <<>>
       THEN /\ toasts' = Append(toasts, [type |-> "error", message |-> PleaseEnter])
            /\ UNCHANGED <<lookup, searches>>
       ELSE /\ lookup' = [lookup EXCEPT !.loading = TRUE]
            /\ searches' = Append(searches, [pc |-> "awaitBadges",
                                             studentId |-> lookup.studentId])
            /\ UNCHANGED toasts
    /\ UNCHANGED <<courseVars, selectVars, lastResponse, shownBy>>

\* line 512: the Search button, disabled while loading
ClickSearch ==
    /\ ~lookup.loading
    /\ HandleSearch

\* line 508: Enter in the input
PressEnter == HandleSearch

\* lines 455-459 and 466-468: the request of call i was answered
\* variant: the answer of a superseded call is discarded
SearchLoadedMut_LatestOnly(i, response) ==
    /\ searches[i].pc = "awaitBadges"
    /\ response.ok
    /\ lastResponse' = response
    /\ IF i = Len(searches)
       THEN /\ lookup' = [lookup EXCEPT !.badges = response.data.badges,
                                        !.totalBadges = TotalBadges(response.data),
                                        !.searched = TRUE,
                                        !.loading = FALSE]
            /\ shownBy' = i
       ELSE UNCHANGED <<lookup, shownBy>>
    /\ toasts' = Append(toasts, [type |-> "success",
                                 message |-> "Found " \o ToString(response.data.total_badges)
                                             \o " badges"])
    /\ searches' = [searches EXCEPT ![i] = [pc |-> "done", studentId |-> @.studentId]]
    /\ UNCHANGED <<courseVars, selectVars>>

SearchLoaded(i, response) ==
    /\ searches[i].pc = "awaitBadges"
    /\ response.ok
    /\ lastResponse' = response
    /\ lookup' = [lookup EXCEPT !.badges = response.data.badges,
                                !.totalBadges = TotalBadges(response.data),
                                !.searched = TRUE,
                                !.loading = FALSE]
    /\ toasts' = Append(toasts, [type |-> "success",
                                 message |-> "Found " \o ToString(response.data.total_badges)
                                             \o " badges"])
    /\ searches' = [searches EXCEPT ![i] = [pc |-> "done", studentId |-> @.studentId]]
    /\ shownBy' = i
    /\ UNCHANGED <<courseVars, selectVars>>

\* lines 455 and 460-468: the request of call i was rejected
SearchFailed(i, response) ==
    /\ searches[i].pc = "awaitBadges"
    /\ ~response.ok
    /\ lastResponse' = response
    /\ toasts' = Append(toasts, [type |-> "error", message |-> ErrorMessage(response.error)])
    /\ lookup' = [lookup EXCEPT !.badges = <<>>,
                                !.totalBadges = 0,
                                !.searched = TRUE,
                                !.loading = FALSE]
    /\ searches' = [searches EXCEPT ![i] = [pc |-> "done", studentId |-> @.studentId]]
    /\ shownBy' = i
    /\ UNCHANGED <<courseVars, selectVars>>

NextLookup ==
    \/ \E value \in InputValues : SetStudentId(value)
    \/ ClickSearch
    \/ PressEnter
    \/ \E i \in 1..Len(searches) : \E response \in EarnedBadgesResponses : SearchLoaded(i, response)
    \/ \E i \in 1..Len(searches) : \E response \in EarnedBadgesResponses : SearchFailed(i, response)

SpecLookup == Init /\ [][NextLookup]_vars

(***************************************************************************)
(* Properties of loadBadges (checked under Spec).                          *)
(***************************************************************************)
\* the skill names of a skill-matrix answer, read off the answer itself
NamesIn(skillMatrices) ==
    UNION { IF "skills" \in DOMAIN skillMatrices[k]
            THEN {skillMatrices[k].skills[n] : n \in 1..Len(skillMatrices[k].skills)}
            ELSE {} : k \in 1..Len(skillMatrices) }

\* the student entries of an analytics answer
EntriesIn(response) ==
    IF "data" \notin DOMAIN response THEN <<>>
    ELSE IF "students" \notin DOMAIN response.data THEN <<>>
    ELSE response.data.students

\* the score of a student entry for a skill: 0 when the breakdown, the entry
\* or the score is missing
ScoreIn(student, skillName) ==
    IF "skillBreakdown" \notin DOMAIN student THEN 0
    ELSE IF skillName \notin DOMAIN student.skillBreakdown THEN 0
    ELSE IF "score" \notin DOMAIN student.skillBreakdown[skillName] THEN 0
    ELSE student.skillBreakdown[skillName].score

\* how many records of a list carry the id
Occurrences(list, id) == Cardinality({k \in 1..Len(list) : list[k].id = id})

\* run i consumes the answer to its analytics request in this step
AnalyticsStep(i) == runs[i].pc = "awaitAnalytics" /\ runs'[i].pc # "awaitAnalytics"

\* run i consumes the answer to its skill-matrix request in this step
MatrixStep(i) == runs[i].pc = "awaitMatrix" /\ runs'[i].pc # "awaitMatrix"

\* no analytics request is issued in this step
NoAnalyticsRequest ==
    \A j \in 1..Len(runs') :
        runs'[j].pc = "awaitAnalytics" => (j <= Len(runs) /\ runs[j].pc = "awaitAnalytics")

\* C1: when a run's analytics fetch succeeds (its skill-matrix fetch has
\* succeeded before), every student entry of the answer is, for every badge
\* set, in exactly one of studentsEarned / studentsNotEarned, and in
\* studentsEarned iff its score for the badge's skill is >= 80 (0 when the
\* breakdown entry or the score is missing).
C1_ExactlyOnePartition ==
    [][\A i \in 1..Len(runs) :
          (AnalyticsStep(i) /\ lastResponse'.ok) =>
             \A b \in 1..Len(badges') : \A n \in 1..Len(EntriesIn(lastResponse')) :
                LET student == EntriesIn(lastResponse')[n]
                    earned  == Occurrences(badges'[b].studentsEarned, student.id)
                    notYet  == Occurrences(badges'[b].studentsNotEarned, student.id)
                IN /\ earned + notYet = 1
                   /\ earned = 1 <=> ScoreIn(student, badges'[b].skill_name) >= 80]_vars

\* C1 witness: Ada (score exactly 80) earned "Basic Math", Bob (no
\* skillBreakdown) did not
C1_Witness ==
    \E b \in 1..Len(badges) :
        /\ badges[b].skill_name = "Basic Math"
        /\ Len(badges[b].studentsEarned) = 1
        /\ badges[b].studentsEarned[1].id = "s1"
        /\ badges[b].studentsEarned[1].skillScore = 80
        /\ Len(badges[b].studentsNotEarned) = 1
        /\ badges[b].studentsNotEarned[1].id = "s2"

\* C2: the badge list set by a run holds exactly one badge per distinct skill
\* name of the run's skill-matrix answer and no other badge, whether the
\* analytics fetch succeeds or fails (and no badge for an answer without
\* records).
C2_OneBadgePerDistinctSkill ==
    [][\A i \in 1..Len(runs) :
          /\ AnalyticsStep(i) =>
                /\ {badges'[k].skill_name : k \in 1..Len(badges')} = NamesIn(runs[i].skillMatrices)
                /\ Len(badges') = Cardinality(NamesIn(runs[i].skillMatrices))
          /\ (MatrixStep(i) /\ lastResponse'.ok /\ runs'[i].pc = "awaitAnalytics") =>
                runs'[i].skillMatrices = lastResponse'.data
          /\ (MatrixStep(i) /\ lastResponse'.ok /\ runs'[i].pc = "done") =>
                Len(badges') = 0]_vars

\* C2 witness: three badges from two records that repeat two names
C2_Witness ==
    /\ Len(badges) = 3
    /\ badges[1].skill_name = "Algebra"
    /\ badges[2].skill_name = "MASTERY"
    /\ badges[3].skill_name = "Intro to Advanced Topics"

\* the level the substring rule gives the names of the model
RuleLevel(skillName) ==
    CASE skillName = "Basic Math" -> "beginner"
      [] skillName = "Intro to Advanced Topics" -> "beginner"
      [] skillName = "MASTERY" -> "advanced"
      [] skillName = "Algebra" -> "intermediate"

\* C3: every badge in the displayed list has the level of the substring rule
\* (beginner before advanced, otherwise intermediate), on the path where the
\* analytics fetch failed as well.
C3_LevelBySubstringRule ==
    \A k \in 1..Len(badges) : badges[k].level = RuleLevel(badges[k].skill_name)

\* C4: when a run's analytics fetch fails (its skill matrix held at least one
\* skill), the run ends, the list holds one badge per distinct skill, each
\* with both student lists empty, loading is false and no notification is
\* raised.
C4_AnalyticsFailureDegrades ==
    [][\A i \in 1..Len(runs) :
          (AnalyticsStep(i) /\ ~lastResponse'.ok /\ NamesIn(runs[i].skillMatrices) # {}) =>
             /\ runs'[i].pc = "done"
             /\ {badges'[k].skill_name : k \in 1..Len(badges')} = NamesIn(runs[i].skillMatrices)
             /\ Len(badges') = Cardinality(NamesIn(runs[i].skillMatrices))
             /\ \A k \in 1..Len(badges') :
                   badges'[k].studentsEarned = <<>> /\ badges'[k].studentsNotEarned = <<>>
             /\ loading' = FALSE
             /\ toasts' = toasts]_vars

\* C4 witness: badges without students shown after a rejected analytics fetch
C4_Witness ==
    /\ lastResponse = [ok |-> FALSE]
    /\ Len(badges) = 2
    /\ badges[1].skill_name = "Basic Math"
    /\ badges[1].studentsEarned = <<>> /\ badges[1].studentsNotEarned = <<>>
    /\ ~loading
    /\ toasts = <<>>

\* C5: when a run's skill-matrix fetch fails, the run ends with an empty
\* list, one failure notification, loading false and no analytics request.
C5_MatrixFailureFatal ==
    [][\A i \in 1..Len(runs) :
          (MatrixStep(i) /\ ~lastResponse'.ok) =>
             /\ runs'[i].pc = "done"
             /\ badges' = <<>>
             /\ toasts' = Append(toasts, [type |-> "error", message |-> "Failed to load badges"])
             /\ loading' = FALSE
             /\ NoAnalyticsRequest]_vars

\* C5 witness: the first run has ended on a rejected skill-matrix fetch
C5_Witness ==
    /\ Len(runs) = 1
    /\ runs[1].pc = "done"
    /\ lastResponse = [ok |-> FALSE]
    /\ Len(toasts) = 1
    /\ badges = <<>>
    /\ ~loading

\* C6: when the skill-matrix answer is absent or holds no record, the run
\* ends with an empty list, loading false, no notification and no analytics
\* request.
C6_EmptyMatrixIsSuccess ==
    [][\A i \in 1..Len(runs) :
          (/\ MatrixStep(i)
           /\ lastResponse'.ok
           /\ IF "data" \in DOMAIN lastResponse' THEN lastResponse'.data = <<>> ELSE TRUE) =>
             /\ runs'[i].pc = "done"
             /\ badges' = <<>>
             /\ loading' = FALSE
             /\ toasts' = toasts
             /\ NoAnalyticsRequest]_vars

\* C6 witness: the first run has ended on an answer without records
C6_Witness ==
    /\ Len(runs) = 1
    /\ runs[1].pc = "done"
    /\ lastResponse = [ok |-> TRUE, data |-> <<>>]
    /\ badges = <<>>
    /\ ~loading
    /\ toasts = <<>>

\* C10: no retries.  After one trigger (the mount) whose skill-matrix fetches
\* have all failed, the skill-matrix request has been issued exactly once and
\* the failure notification raised exactly once.
C10_OncePerTrigger ==
    (/\ triggers = 1
     /\ Len(toasts) >= 1
     /\ Cardinality({i \in 1..Len(runs) : runs[i].pc = "done"}) = Len(toasts)
     /\ \A i \in 1..Len(runs) : runs[i].pc # "awaitAnalytics")
    => (Len(runs) = 1 /\ Len(toasts) = 1)

(***************************************************************************)
(* Properties of handleSearch (checked under SpecLookup).                  *)
(***************************************************************************)
\* empty or whitespace-only
Blank(s) == \A k \in 1..Len(s) : s[k] \in {" ", "\t", "\n", "\r"}

\* call i consumes the answer to its request in this step
SearchStep(i) == searches[i].pc = "awaitBadges" /\ searches'[i].pc # "awaitBadges"

\* the message a rejection carries, "" when it carries none
SuppliedMessage(response) ==
    IF "response" \notin DOMAIN response.error THEN ""
    ELSE IF "data" \notin DOMAIN response.error.response THEN ""
    ELSE IF "message" \notin DOMAIN response.error.response.data THEN ""
    ELSE response.error.response.data.message

\* C7: handleSearch with an empty or whitespace-only studentId issues no
\* request and raises the validation notification, whatever the state of the
\* view.
C7_BlankIdRejected ==
    [][(HandleSearch /\ Blank(lookup.studentId)) =>
          /\ searches' = searches
          /\ lookup' = lookup
          /\ toasts' = Append(toasts, [type |-> "error",
                                       message |-> "Please enter a student ID"])]_vars

\* C7 witness: the validation notification was raised for a whitespace-only
\* id while an earlier search was still loading
C7_Witness ==
    /\ lookup.studentId = <<" ", "\t">>
    /\ lookup.loading
    /\ Len(toasts) >= 1
    /\ toasts[Len(toasts)].message = "Please enter a student ID"

\* C8: when a search request fails, the view shows no badge and a total of
\* 0, is marked searched, loading is false, and the notification carries the
\* backend's message when there is one and the generic message otherwise.
C8_SearchFailure ==
    [][\A i \in 1..Len(searches) :
          (SearchStep(i) /\ ~lastResponse'.ok) =>
             /\ lookup'.badges = <<>>
             /\ lookup'.totalBadges = 0
             /\ lookup'.searched
             /\ ~lookup'.loading
             /\ toasts' = Append(toasts,
                    [type |-> "error",
                     message |-> IF SuppliedMessage(lastResponse') # ""
                                 THEN SuppliedMessage(lastResponse')
                                 ELSE "Failed to fetch badges"])]_vars

\* C8 witness: a failed search that showed the backend's message
C8_Witness ==
    /\ lookup.searched
    /\ ~lookup.loading
    /\ lookup.badges = <<>>
    /\ lookup.totalBadges = 0
    /\ Len(toasts) >= 1
    /\ toasts[Len(toasts)].message = "Student not found"

\* C9: when a search request succeeds, the list shown is the answer's badges
\* and the total shown is the answer's total_badges, whether or not the total
\* equals the length of the list.
C9_SearchVerbatim ==
    [][\A i \in 1..Len(searches) :
          (SearchStep(i) /\ lastResponse'.ok) =>
             /\ lookup'.badges = lastResponse'.data.badges
             /\ lookup'.totalBadges = lastResponse'.data.total_badges
             /\ lookup'.searched]_vars

\* C9 witness: two badges shown under a total of 1
C9_Witness ==
    /\ lookup.searched
    /\ Len(lookup.badges) = 2
    /\ lookup.totalBadges = 1

(***************************************************************************)
(* Requests in flight, stale answers and the summary of the lookup view    *)
(* (checked under SpecLookup).                                             *)
(***************************************************************************)
\* the handleSearch calls whose request has not been answered
SearchesInFlight == {i \in 1..Len(searches) : searches[i].pc = "awaitBadges"}

\* the loadBadges runs that wait for an answer
RunsInFlight == {i \in 1..Len(runs) : runs[i].pc \in {"awaitMatrix", "awaitAnalytics"}}

\* C12: at most one getStudentEarnedBadges request is outstanding in the
\* lookup view, whatever the clicks and Enter presses, and at most one
\* loadBadges run is outstanding in the course view.
C12_AtMostOneInFlight ==
    /\ Cardinality(SearchesInFlight) <= 1
    /\ Cardinality(RunsInFlight) <= 1

\* C13: no answer is discarded.  An answer that arrives for a call after a
\* later call has been answered replaces what the view shows: the badges and
\* the total are those of the older call's answer.
C13_StaleAnswerApplied ==
    [][\A i \in 1..Len(searches) :
          (SearchStep(i) /\ \E j \in (i + 1)..Len(searches) : searches[j].pc = "done") =>
             /\ shownBy' = i
             /\ lookup'.badges = IF lastResponse'.ok THEN lastResponse'.data.badges ELSE <<>>
             /\ lookup'.totalBadges = IF lastResponse'.ok
                                      THEN lastResponse'.data.total_badges ELSE 0]_vars

\* C13 witness: call 1 (A) and call 2 (B) were made in this order for
\* different ids, B was answered first, and with no request left in flight
\* the view shows the two badges of A's answer
C13_Witness ==
    /\ Len(searches) = 2
    /\ searches[1].pc = "done" /\ searches[2].pc = "done"
    /\ searches[1].studentId # searches[2].studentId
    /\ shownBy = 1
    /\ ~lookup.loading
    /\ Len(lookup.badges) = 2

\* C15: loading tracks outstanding work: in the lookup view loading is true
\* iff a request of the view has not been answered yet.
C15_LoadingIffInFlight ==
    lookup.loading <=> SearchesInFlight # {}

\* C17: whenever results are shown, the student ID in the summary (line 527,
\* the studentId state) is the ID of the lookup that produced the badges and
\* the total shown.
C17_SummaryNamesTheLookup ==
    lookup.searched =>
        /\ shownBy # 0
        /\ lookup.studentId = searches[shownBy].studentId

(***************************************************************************)
(* Requests per trigger and the student records (checked under Spec).      *)
(***************************************************************************)
\* C11: each trigger issues one or two sequential requests and the list is
\* updated only when they are over: the analytics request of a run is issued
\* only by the step that consumes the run's successful, non-empty
\* skill-matrix answer; the badge list changes only in a step that ends a
\* run; and the requests issued (at least one per run started, one more per
\* run waiting for the analytics) are no more than two per trigger.
C11_TwoRequestsPerTrigger ==
    [][/\ \A i \in 1..Len(runs') :
             (runs'[i].pc = "awaitAnalytics" /\ (i > Len(runs) \/ runs[i].pc # "awaitAnalytics")) =>
                /\ i <= Len(runs)
                /\ runs[i].pc = "awaitMatrix"
                /\ lastResponse'.ok
                /\ "data" \in DOMAIN lastResponse'
                /\ lastResponse'.data # <<>>
       /\ badges' # badges =>
             \E i \in RunsInFlight : runs'[i].pc = "done"
       /\ Len(runs') + Cardinality({i \in 1..Len(runs') : runs'[i].pc = "awaitAnalytics"})
             <= 2 * triggers']_vars

\* C14: the records a run puts in a badge's lists agree with the list they
\* are in: a record in studentsEarned has earned = TRUE, progress =
\* skillScore = the student's score, which is >= 80, and an earnedAt; a
\* record in studentsNotEarned has earned = FALSE, progress = skillScore =
\* the student's score, which is < 80, and no earnedAt.
C14_RecordsMatchTheirList ==
    [][(\E i \in 1..Len(runs) : AnalyticsStep(i)) =>
          \A b \in 1..Len(badges') :
             LET badge == badges'[b]
                 ScoreOf(id) == {ScoreIn(EntriesIn(lastResponse')[n], badge.skill_name) :
                                    n \in {m \in 1..Len(EntriesIn(lastResponse')) :
                                              EntriesIn(lastResponse')[m].id = id}}
             IN /\ \A k \in 1..Len(badge.studentsEarned) :
                      LET st == badge.studentsEarned[k] IN
                      /\ st.earned = TRUE
                      /\ st.progress = st.skillScore
                      /\ ScoreOf(st.id) = {st.skillScore}
                      /\ st.skillScore >= 80
                      /\ "earnedAt" \in DOMAIN st
                /\ \A k \in 1..Len(badge.studentsNotEarned) :
                      LET st == badge.studentsNotEarned[k] IN
                      /\ st.earned = FALSE
                      /\ st.progress = st.skillScore
                      /\ ScoreOf(st.id) = {st.skillScore}
                      /\ st.progress < 80
                      /\ "earnedAt" \notin DOMAIN st]_vars

\* C14 witness: Ada is in progress on "Algebra" with 79 and has earned
\* "Basic Math", with a timestamp, at 80
C14_Witness ==
    /\ Len(badges) = 2
    /\ badges[1].skill_name = "Basic Math"
    /\ Len(badges[1].studentsEarned) = 1
    /\ badges[1].studentsEarned[1].progress = 80
    /\ "earnedAt" \in DOMAIN badges[1].studentsEarned[1]
    /\ badges[2].skill_name = "Algebra"
    /\ Len(badges[2].studentsNotEarned) = 2
    /\ badges[2].studentsNotEarned[1].progress = 79
    /\ ~badges[2].studentsNotEarned[1].earned

(***************************************************************************)
(* The expanded badge (checked under SpecSelect).                          *)
(***************************************************************************)
\* C16: whenever the list is displayed, selectedBadge is null or the id of a
\* badge of the displayed list, and that badge is for the skill the user
\* expanded.
C16_SelectionDenotesItsSkill ==
    ~loading =>
        \/ selectedBadge = Null
        \/ \E k \in 1..Len(badges) :
              /\ badges[k].id = selectedBadge
              /\ badges[k].skill_name = selectedSkill

====
